---- MODULE Spec2Model ----
(***************************************************************************)
(* Model of subir_gh.py: ScriptAnalyzer scans a directory tree for .py     *)
(* files, asks a text-generation service for each script's inputs and      *)
(* outputs, groups the scripts by output table and asks the service for a  *)
(* unified SQL text per group.                                             *)
(*                                                                         *)
(* Texts exchanged with the service are sequences of chunks: the fence     *)
(* markers the regular expressions look for, and payload chunks.  JSON      *)
(* values are tagged records [kind, val]; a JSON object is the ordered list *)
(* of its <<key, value>> pairs, as a Python dict.                          *)
(***************************************************************************)
EXTENDS Integers, Sequences, FiniteSets, TLC

VARIABLES tree, scripts, model_json, model_sql, pc, todo, llm_result,
          table_groups, combinations, results, pending, error, report, file,
          log, runs, prevReport, found, findCalls

vars == <<tree, scripts, model_json, model_sql, pc, todo, llm_result,
          table_groups, combinations, results, pending, error, report, file,
          log, runs, prevReport, found, findCalls>>

\* Longest directory listing considered.
MaxFiles == 3
\* Number of run_analysis calls made on one analyzer.
MaxRuns == 2
\* Number of find_combinations calls made on one unchanged record list.
MaxFinds == 2
\* Most records self.scripts holds: a further run_analysis is started only
\* when the records it appends still fit.
MaxRecords == 4

Min(S) == CHOOSE x \in S : \A y \in S : x <= y

(***************************************************************************)
(* Filesystem under base_dir.                                              *)
(***************************************************************************)
FileName(stem, ext) == [stem |-> stem, ext |-> ext]

FilePath(dir, f) == [dir |-> dir, file |-> f]

\* os.walk is top-down: the files of base_dir come before those of a
\* sub-directory.
DirRank(dir) == IF dir = "rpa" THEN 1 ELSE 2

AllPaths ==
  { FilePath("rpa", FileName("a", ".py")),
    FilePath("rpa", FileName("b", ".py")),
    FilePath("rpa/old", FileName("a", ".py")),
    FilePath("rpa", FileName("a", ".pyc")) }

Listings ==
  UNION { { s \in [1..n -> AllPaths] :
              /\ \A i, j \in 1..n : i # j => s[i] # s[j]
              /\ \A i, j \in 1..n : i < j => DirRank(s[i].dir) <= DirRank(s[j].dir) } :
          n \in 0..MaxFiles }

basename(path) == path.file

endswith_py(f) == f.ext = ".py"

find_scripts(listing) == SelectSeq(listing, LAMBDA p : endswith_py(p.file))

(***************************************************************************)
(* JSON values and the Python operations the code applies to them.         *)
(***************************************************************************)
JStr(s) == [kind |-> "string", val |-> s]
JArr(s) == [kind |-> "array", val |-> s]
JObj(pairs) == [kind |-> "object", val |-> pairs]
JNull == [kind |-> "null", val |-> <<>>]

Ok(v) == [ok |-> TRUE, error |-> "", val |-> v]
Raise(e) == [ok |-> FALSE, error |-> e, val |-> <<>>]

HasKey(d, key) == \E i \in 1..Len(d.val) : d.val[i][1] = key

\* dict.get(key, default) on a value known to be a dict.
Get(d, key, default) ==
  IF HasKey(d, key)
  THEN d.val[Min({i \in 1..Len(d.val) : d.val[i][1] = key})][2]
  ELSE default

\* Python truth value.
Truthy(v) ==
  CASE v.kind = "string" -> v.val # ""
    [] v.kind = "array" -> v.val # <<>>
    [] v.kind = "object" -> v.val # <<>>
    [] OTHER -> FALSE

\* Usable as a dict key.
Hashable(v) == v.kind \in {"string", "null"}

\* for x in v: the items, or TypeError.  A dict yields its keys; a str
\* yields str items (one stands for all: each is a str).
Iterate(v) ==
  CASE v.kind = "array" -> Ok(v.val)
    [] v.kind = "object" -> Ok([i \in 1..Len(v.val) |-> JStr(v.val[i][1])])
    [] v.kind = "string" -> Ok(IF v.val = "" THEN <<>> ELSE <<JStr(v.val)>>)
    [] OTHER -> Raise("TypeError")

(***************************************************************************)
(* Service replies.  The three-backquote fence is written ''' here.        *)
(***************************************************************************)
FenceJson == "'''json\n"
FenceSql == "'''sql\n"
FenceEnd == "\n'''"

Raises == [raises |-> TRUE, text |-> <<>>]
Text(t) == [raises |-> FALSE, text |-> t]

Out(dest, op) == JObj(<< <<"destination", JStr(dest)>>, <<"operation", JStr(op)>> >>)

D_Empty == "{}"
D_List == "[]"
D_Customers == "{\"inputs\": [{\"source\": \"staging\", \"columns\": [\"id\"]}], \"outputs\": [{\"destination\": \"customers\", \"operation\": \"INSERT\"}], \"combinable_with\": [\"orders\"]}"
D_Twice == "{\"outputs\": [{\"destination\": \"customers\", \"operation\": \"INSERT\"}, {\"destination\": \"customers\", \"operation\": \"UPDATE\"}]}"
D_OrdersCustomers == "{\"outputs\": [{\"destination\": \"orders\", \"operation\": \"INSERT\"}, {\"operation\": \"DELETE\"}, {\"destination\": \"\", \"operation\": \"UPDATE\"}, {\"destination\": \"customers\", \"operation\": \"UPDATE\"}], \"inputs\": []}"
D_Case == "{\"outputs\": [{\"destination\": \"Customers\", \"operation\": \"UPDATE\"}, {\"destination\": \"orders\", \"operation\": \"UPDATE\"}]}"
D_NullOutputs == "{\"outputs\": null}"
D_Truncated == "{\"outputs\": ["

JsonDocs == {D_Empty, D_List, D_Customers, D_Twice, D_OrdersCustomers, D_Case, D_NullOutputs}

\* The value json.loads gives for each valid document.
Decode(doc) ==
  CASE doc = D_Empty -> JObj(<<>>)
    [] doc = D_List -> JArr(<<>>)
    [] doc = D_Customers ->
         JObj(<< <<"inputs", JArr(<<JObj(<< <<"source", JStr("staging")>>,
                                             <<"columns", JArr(<<JStr("id")>>)>> >>)>>)>>,
                 <<"outputs", JArr(<<Out("customers", "INSERT")>>)>>,
                 <<"combinable_with", JArr(<<JStr("orders")>>)>> >>)
    [] doc = D_Twice ->
         JObj(<< <<"outputs", JArr(<<Out("customers", "INSERT"),
                                     Out("customers", "UPDATE")>>)>> >>)
    [] doc = D_OrdersCustomers ->
         JObj(<< <<"outputs", JArr(<<Out("orders", "INSERT"),
                                     JObj(<< <<"operation", JStr("DELETE")>> >>),
                                     Out("", "UPDATE"),
                                     Out("customers", "UPDATE")>>)>>,
                 <<"inputs", JArr(<<>>)>> >>)
    [] doc = D_Case ->
         JObj(<< <<"outputs", JArr(<<Out("Customers", "UPDATE"),
                                     Out("orders", "UPDATE")>>)>> >>)
    [] doc = D_NullOutputs -> JObj(<< <<"outputs", JNull>> >>)

\* json.loads: the text must be one valid document.
loads(text) ==
  IF Len(text) = 1 /\ text[1] \in JsonDocs THEN Ok(Decode(text[1])) ELSE Raise("JSONDecodeError")

\* re.search(fence + <any text, shortest> + closing fence, DOTALL): leftmost opening fence
\* that a closing fence follows, group 1 up to the nearest closing fence.
search(fence, text) ==
  LET opens == {i \in 1..Len(text) :
                  text[i] = fence /\ \E j \in (i+1)..Len(text) : text[j] = FenceEnd}
  IN IF opens = {} THEN [found |-> FALSE, group |-> <<>>]
     ELSE LET i == Min(opens)
              j == Min({k \in (i+1)..Len(text) : text[k] = FenceEnd})
          IN [found |-> TRUE, group |-> SubSeq(text, i + 1, j - 1)]

R_Garbled == Text(<<"Sorry, I cannot analyse this script.">>)
R_FencedTruncated == Text(<<FenceJson, D_Truncated, FenceEnd>>)
R_Empty == Text(<<D_Empty>>)
R_List == Text(<<D_List>>)
R_Customers == Text(<<"Here is the JSON:", FenceJson, D_Customers, FenceEnd, "Done.">>)
R_Twice == Text(<<D_Twice>>)
R_OrdersCustomers == Text(<<FenceJson, D_OrdersCustomers, FenceEnd>>)
R_Case == Text(<<D_Case>>)
R_NullOutputs == Text(<<D_NullOutputs>>)

JsonReplies == {Raises, R_Garbled, R_FencedTruncated, R_Empty, R_List,
                R_Customers, R_Twice, R_OrdersCustomers, R_Case, R_NullOutputs}

S_Empty == Text(<<D_Empty>>)
S_Fenced == Text(<<"Here:", FenceSql, "INSERT INTO t SELECT 1;", FenceEnd, "Done.">>)
S_Unclosed == Text(<<FenceSql, "SELECT 1;">>)

SqlReplies == {Raises, S_Empty, S_Fenced, S_Unclosed}

(***************************************************************************)
(* ScriptAnalyzer methods.  ScriptData keeps name, path and the three      *)
(* inferred fields; code and connections play no part in what follows      *)
(* (the path stands for the file's code in the extraction prompt).         *)
(***************************************************************************)
EmptyResult ==
  JObj(<< <<"inputs", JArr(<<>>)>>, <<"outputs", JArr(<<>>)>>,
          <<"combinable_with", JArr(<<>>)>> >>)

analyze_with_llm_bare_dict(response) ==
  IF response.raises THEN EmptyResult
  ELSE LET json_match == search(FenceJson, response.text)
           parsed == loads(IF json_match.found THEN json_match.group ELSE response.text)
       IN IF parsed.ok THEN parsed.val ELSE JObj(<<>>)

analyze_with_llm(response) ==
  IF response.raises THEN EmptyResult
  ELSE LET json_match == search(FenceJson, response.text)
           parsed == loads(IF json_match.found THEN json_match.group ELSE response.text)
       IN IF parsed.ok THEN parsed.val ELSE EmptyResult

ScriptData(path, llm) ==
  [name |-> basename(path), path |-> path,
   inputs |-> Get(llm, "inputs", JArr(<<>>)),
   outputs |-> Get(llm, "outputs", JArr(<<>>)),
   combinable_with |-> Get(llm, "combinable_with", JArr(<<>>))]

\* .get exists on a dict only.
analyze_script(path, response) ==
  LET llm == analyze_with_llm(response)
  IN IF llm.kind = "object" THEN Ok(ScriptData(path, llm)) ELSE Raise("AttributeError")

\* table_groups is an insertion-ordered dict: a list of [table, scripts].
HasTable(groups, table) == \E i \in 1..Len(groups) : groups[i].table = table

AddToGroup(groups, table, name) ==
  IF HasTable(groups, table)
  THEN [i \in 1..Len(groups) |->
          IF groups[i].table = table
          THEN [groups[i] EXCEPT !.scripts = Append(@, name)]
          ELSE groups[i]]
  ELSE Append(groups, [table |-> table, scripts |-> <<name>>])

RECURSIVE AddOutputs(_, _, _)
AddOutputs(groups, name, outputs) ==
  IF outputs = <<>> THEN Ok(groups)
  ELSE LET output == Head(outputs)
       IN IF output.kind # "object" THEN Raise("AttributeError")
          ELSE LET table == Get(output, "destination", JStr(""))
               IN IF ~Truthy(table) THEN AddOutputs(groups, name, Tail(outputs))
                  ELSE IF ~Hashable(table) THEN Raise("TypeError")
                  ELSE AddOutputs(AddToGroup(groups, table, name), name, Tail(outputs))

RECURSIVE GroupScripts(_, _)
GroupScripts(groups, records) ==
  IF records = <<>> THEN Ok(groups)
  ELSE LET items == Iterate(Head(records).outputs)
       IN IF ~items.ok THEN items
          ELSE LET added == AddOutputs(groups, Head(records).name, items.val)
               IN IF ~added.ok THEN added ELSE GroupScripts(added.val, Tail(records))

more_than_two(group) == Len(group.scripts) > 2

more_than_one(group) == Len(group.scripts) > 1

table_groups_kept == table_groups

table_groups_init == <<>>

find_combinations(records) ==
  LET grouped == GroupScripts(table_groups_init, records)
  IN IF ~grouped.ok THEN grouped
     ELSE [ok |-> TRUE, error |-> "", val |-> SelectSeq(grouped.val, more_than_one),
           groups |-> grouped.val]

InList(x, list) == \E i \in 1..Len(list) : list[i] = x

scripts_data(combination) == SelectSeq(scripts, LAMBDA s : InList(s.name, combination.scripts))

Projection(records) ==
  [i \in 1..Len(records) |->
     [name |-> records[i].name, inputs |-> records[i].inputs, outputs |-> records[i].outputs]]

SqlPrompt(combination) ==
  [table |-> combination.table, scripts |-> Projection(scripts_data(combination))]

ErrorSql(table) == <<"-- Erro ao gerar SQL para " \o table.val>>

generate_unified_sql_nofence(combination, response) ==
  IF response.raises THEN ErrorSql(combination.table) ELSE response.text

generate_unified_sql(combination, response) ==
  IF response.raises THEN ErrorSql(combination.table)
  ELSE LET sql_match == search(FenceSql, response.text)
       IN IF sql_match.found THEN sql_match.group ELSE response.text

\* d[key] = value on an insertion-ordered dict kept as a list of [table, sql].
DictSet(d, key, value) ==
  IF \E i \in 1..Len(d) : d[i].table = key
  THEN [i \in 1..Len(d) |-> IF d[i].table = key THEN [table |-> key, sql |-> value] ELSE d[i]]
  ELSE Append(d, [table |-> key, sql |-> value])

NoResults == [scripts |-> -1, combinations |-> <<>>, unified_sql |-> <<>>]
NoError == [type |-> "", where |-> ""]

\* The service is a function of the prompt: a prompt already answered gets
\* the same reply again.
Answers(memo, prompt, reply) == \A m \in memo : m[1] = prompt => m[2] = reply

Idle == pc \in {"idle", "done", "raised"}

(***************************************************************************)
(* State machine.                                                          *)
(***************************************************************************)
Init ==
  /\ tree \in Listings
  /\ scripts = <<>>
  /\ model_json = {}
  /\ model_sql = {}
  /\ pc = "idle"
  /\ todo = <<>>
  /\ llm_result = JNull
  /\ table_groups = <<>>
  /\ combinations = <<>>
  /\ results = NoResults
  /\ pending = <<>>
  /\ error = NoError
  /\ report = NoResults
  /\ file = NoResults
  /\ log = <<>>
  /\ runs = 0
  /\ prevReport = NoResults
  /\ found = Ok(<<>>)
  /\ findCalls = 0

\* save_results enters run_analysis (line 139); the for loop of line 117
\* gets the list find_scripts returns.
CallRunAnalysis ==
  /\ Idle
  /\ runs < MaxRuns
  /\ Len(scripts) + Len(find_scripts(tree)) <= MaxRecords
  /\ pc' = "analyze"
  /\ todo' = find_scripts(tree)
  /\ runs' = runs + 1
  /\ log' = <<>>
  /\ llm_result' = JNull
  /\ combinations' = <<>>
  /\ results' = NoResults
  /\ pending' = <<>>
  /\ error' = NoError
  /\ UNCHANGED <<tree, scripts, model_json, model_sql, table_groups, report, file,
                 prevReport, found, findCalls>>

\* One iteration of the loop of lines 117-120: analyze_script, append.
AnalyzeStep ==
  /\ pc = "analyze"
  /\ todo # <<>>
  /\ LET path == Head(todo)
     IN \E response \in JsonReplies :
          /\ Answers(model_json, path, response)
          /\ model_json' = model_json \cup {<<path, response>>}
          /\ log' = Append(log, [op |-> "extract", key |-> path, reply |-> response])
          /\ llm_result' = analyze_with_llm(response)
          /\ LET script == analyze_script(path, response)
             IN IF script.ok
                THEN /\ scripts' = Append(scripts, script.val)
                     /\ todo' = Tail(todo)
                     /\ findCalls' = 0
                     /\ UNCHANGED <<pc, error>>
                ELSE /\ pc' = "raised"
                     /\ error' = [type |-> script.error, where |-> "analyze_script"]
                     /\ UNCHANGED <<scripts, todo, findCalls>>
  /\ UNCHANGED <<tree, model_sql, table_groups, combinations, results, pending,
                 report, file, runs, prevReport, found>>

\* Lines 122-128: find_combinations over the completed list, results built.
CombineStep ==
  /\ pc = "analyze"
  /\ todo = <<>>
  /\ LET ret == find_combinations(scripts)
     IN /\ found' = [ok |-> ret.ok, error |-> ret.error, val |-> ret.val]
        /\ findCalls' = findCalls + 1
        /\ log' = Append(log, [op |-> "find", key |-> <<>>, reply |-> Raises])
        /\ IF ret.ok
           THEN /\ table_groups' = ret.groups
                /\ combinations' = ret.val
                /\ results' = [scripts |-> Len(scripts), combinations |-> ret.val,
                               unified_sql |-> <<>>]
                /\ pending' = ret.val
                /\ pc' = "synth"
                /\ UNCHANGED error
           ELSE /\ pc' = "raised"
                /\ error' = [type |-> ret.error, where |-> "find_combinations"]
                /\ UNCHANGED <<table_groups, combinations, results, pending>>
  /\ UNCHANGED <<tree, scripts, model_json, model_sql, todo, llm_result, report,
                 file, runs, prevReport>>

\* One iteration of the loop of lines 131-134.
SynthStep ==
  /\ pc = "synth"
  /\ pending # <<>>
  /\ LET combo == Head(pending)
         prompt == SqlPrompt(combo)
     IN \E response \in SqlReplies :
          /\ Answers(model_sql, prompt, response)
          /\ model_sql' = model_sql \cup {<<prompt, response>>}
          /\ log' = Append(log, [op |-> "synth", key |-> combo.table, reply |-> response,
                                 prompt |-> prompt])
          /\ results' = [results EXCEPT
                           !.unified_sql = DictSet(@, combo.table,
                                                   generate_unified_sql(combo, response))]
  /\ pending' = Tail(pending)
  /\ UNCHANGED <<tree, scripts, model_json, pc, todo, llm_result, table_groups,
                 combinations, error, report, file, runs, prevReport, found, findCalls>>

\* Line 136: the report goes to the caller, save_results, which writes it
\* to the file (lines 140-141), replacing what the file held.
Return ==
  /\ pc = "synth"
  /\ pending = <<>>
  /\ pc' = "done"
  /\ report' = results
  /\ prevReport' = report
  /\ file' = results
  /\ UNCHANGED <<tree, scripts, model_json, model_sql, todo, llm_result,
                 table_groups, combinations, results, pending, error, log, runs, found,
                 findCalls>>

\* find_combinations called by itself on the current record list.
FindCombinations ==
  /\ Idle
  /\ findCalls < MaxFinds
  /\ LET ret == find_combinations(scripts)
     IN /\ found' = [ok |-> ret.ok, error |-> ret.error, val |-> ret.val]
        /\ table_groups' = IF ret.ok THEN ret.groups ELSE table_groups
  /\ findCalls' = findCalls + 1
  /\ UNCHANGED <<tree, scripts, model_json, model_sql, pc, todo, llm_result,
                 combinations, results, pending, error, report, file, log, runs,
                 prevReport>>

Next ==
  \/ CallRunAnalysis
  \/ AnalyzeStep
  \/ CombineStep
  \/ SynthStep
  \/ Return
  \/ FindCombinations

Spec == Init /\ [][Next]_vars

(***************************************************************************)
(* Properties.                                                             *)
(***************************************************************************)
A_py == FilePath("rpa", FileName("a", ".py"))
B_py == FilePath("rpa", FileName("b", ".py"))
OldA_py == FilePath("rpa/old", FileName("a", ".py"))

Range(f) == {f[i] : i \in DOMAIN f}

\* The files under the root whose name ends in .py.
PyFiles == {p \in Range(tree) : p.file.ext = ".py"}

Calls(op) == {i \in 1..Len(log) : log[i].op = op}

CallsFor(op, key) == {i \in Calls(op) : log[i].key = key}

RunEnded == pc \in {"done", "raised"}

\* The record list held no records when the current run_analysis began.
FreshRun == Len(scripts) = Cardinality(Calls("extract"))

\* The destination an output entry names, if it names one.
DestinationOf(output) ==
  IF output.kind # "object" THEN {}
  ELSE {output.val[k][2] :
          k \in {j \in 1..Len(output.val) :
                   /\ output.val[j][1] = "destination"
                   /\ output.val[j][2].kind = "string"
                   /\ output.val[j][2].val # ""}}

\* The destinations a record declares among its outputs.
Destinations(s) ==
  IF s.outputs.kind # "array" THEN {}
  ELSE UNION {DestinationOf(s.outputs.val[i]) : i \in 1..Len(s.outputs.val)}

AllDestinations == UNION {Destinations(scripts[i]) : i \in 1..Len(scripts)}

Contributors(t) == SelectSeq(scripts, LAMBDA s : t \in Destinations(s))

Names(records) == [i \in 1..Len(records) |-> records[i].name]

\* C1: one script's extraction failure never aborts the batch: whatever the
\* service does on an extraction call, run_analysis does not raise.
C1_NeverAborts == pc # "raised"

FailingJsonReplies == {Raises, R_Garbled, R_FencedTruncated}

\* C2: when the extraction call raises or its text is not parseable as JSON,
\* analyze_with_llm returns exactly {inputs: [], outputs: [],
\* combinable_with: []} and the record built from it has three empty lists.
C2_EmptyOnFailure ==
  (/\ log # <<>>
   /\ log[Len(log)].op = "extract"
   /\ log[Len(log)].reply \in FailingJsonReplies)
  => /\ pc # "raised"
     /\ llm_result = [kind |-> "object",
                      val |-> << <<"inputs", [kind |-> "array", val |-> <<>>]>>,
                                 <<"outputs", [kind |-> "array", val |-> <<>>]>>,
                                 <<"combinable_with", [kind |-> "array", val |-> <<>>]>> >>]
     /\ scripts # <<>>
     /\ LET s == scripts[Len(scripts)]
        IN /\ s.path = log[Len(log)].key
           /\ s.inputs = [kind |-> "array", val |-> <<>>]
           /\ s.outputs = [kind |-> "array", val |-> <<>>]
           /\ s.combinable_with = [kind |-> "array", val |-> <<>>]

C2_Witness ==
  /\ Len(scripts) >= 2
  /\ log # <<>>
  /\ log[Len(log)].op = "extract"
  /\ log[Len(log)].reply = R_FencedTruncated
  /\ \E i \in Calls("extract") : log[i].reply = Raises
  /\ scripts[Len(scripts)].outputs = JArr(<<>>)

\* C3: find_combinations returns exactly one candidate for each destination
\* that two or more scripts declare and none for a destination one script
\* declares; the members are the contributing scripts' names, each script
\* once, in the order of the record list.
C3_OnePerSharedTable ==
  (findCalls >= 1 /\ found.ok)
  => \A t \in AllDestinations :
       LET hits == {i \in 1..Len(found.val) : found.val[i].table = t}
       IN IF Len(Contributors(t)) >= 2
          THEN /\ Cardinality(hits) = 1
               /\ \A i \in hits : found.val[i].scripts = Names(Contributors(t))
          ELSE hits = {}

ExpectedSql(reply, table) ==
  CASE reply = Raises /\ table = JStr("customers") -> <<"-- Erro ao gerar SQL para customers">>
    [] reply = Raises /\ table = JStr("orders") -> <<"-- Erro ao gerar SQL para orders">>
    [] reply = Raises /\ table = JStr("Customers") -> <<"-- Erro ao gerar SQL para Customers">>
    [] reply = S_Empty -> <<"{}">>
    [] reply = S_Fenced -> <<"INSERT INTO t SELECT 1;">>
    [] reply = S_Unclosed -> <<"'''sql\n", "SELECT 1;">>

\* C4: generate_unified_sql never raises into run_analysis: a failed
\* synthesis call for table T gives "-- Erro ao gerar SQL para T", otherwise
\* the content of the fenced sql block if there is one, else the raw text.
C4_SqlOrPlaceholder ==
  /\ error.where \in {"", "analyze_script", "find_combinations"}
  /\ \A i \in Calls("synth") :
       \E j \in 1..Len(results.unified_sql) :
         /\ results.unified_sql[j].table = log[i].key
         /\ results.unified_sql[j].sql = ExpectedSql(log[i].reply, log[i].key)

C4_Witness ==
  /\ pc = "done"
  /\ \E i, j, k \in Calls("synth") :
       /\ log[i].reply = Raises
       /\ log[j].reply = S_Fenced
       /\ log[k].reply = S_Unclosed

\* C5: when run_analysis returns, the records held and the report's scripts
\* count both equal the number of .py files under the root, one record per
\* file.
C5_OneRecordPerFile ==
  pc = "done"
  => /\ Len(scripts) = Cardinality(PyFiles)
     /\ report.scripts = Cardinality(PyFiles)
     /\ \A p \in PyFiles : Cardinality({i \in 1..Len(scripts) : scripts[i].path = p}) = 1

TwoScripts == find_scripts(tree) = <<A_py, B_py>>

CustomersReport(sql) ==
  [scripts |-> 2,
   combinations |-> <<[table |-> JStr("customers"),
                       scripts |-> <<FileName("a", ".py"), FileName("b", ".py")>>]>>,
   unified_sql |-> <<[table |-> JStr("customers"), sql |-> sql]>>]

C7_Idempotent ==
  [][findCalls' = findCalls + 1
       => /\ scripts' = scripts
          /\ (findCalls >= 1 => found' = found)]_vars

C7_Witness ==
  /\ findCalls >= 2
  /\ found.ok
  /\ Len(found.val) >= 2

\* C8: in one run_analysis there is exactly one extraction call per
\* discovered script, one find_combinations after all of them, exactly one
\* synthesis call per candidate after it, and at the end the keys of
\* unified_sql are the candidates' tables.
C8_EachCallOnce ==
  RunEnded
  => /\ \A p \in PyFiles : Cardinality(CallsFor("extract", p)) = 1
     /\ Cardinality(Calls("extract")) = Cardinality(PyFiles)
     /\ Cardinality(Calls("find")) = 1
     /\ \A i \in Calls("extract") : \A j \in Calls("find") : i < j
     /\ \A i \in Calls("synth") : \A j \in Calls("find") : j < i
     /\ \A c \in Range(combinations) : Cardinality(CallsFor("synth", c.table)) = 1
     /\ Cardinality(Calls("synth")) = Len(combinations)
     /\ {results.unified_sql[j].table : j \in 1..Len(results.unified_sql)}
          = {c.table : c \in Range(combinations)}

\* C9: every record projected into a synthesis prompt declares the
\* candidate's table as an output, and each contributing script is projected
\* once, also when two files share a basename.
C9_ProjectedDeclareTable ==
  \A i \in Calls("synth") :
    /\ \A j \in 1..Len(log[i].prompt.scripts) :
         log[i].key \in Destinations(log[i].prompt.scripts[j])
    /\ Len(log[i].prompt.scripts) = Len(Contributors(log[i].key))

\* C10: a second run_analysis on the same analyzer, over the unchanged
\* directory and with the service answering as before, returns a report
\* equal to the first.
C10_SameReportAgain ==
  (pc = "done" /\ prevReport # NoResults) => report = prevReport
====
